---------------------------- MODULE Spec2Model ----------------------------
(***************************************************************************)
(* kuberang: the verification workflow of pkg/kuberang/mainworkflow.go.    *)
(*                                                                         *)
(* CheckKubernetes is a strictly sequential function.  The model follows   *)
(* its control flow call by call: every call to the cluster (RunKubectl,   *)
(* RunGetService, RunGetDeployment, RunPod, RunGetNodes, http.Client.Get)  *)
(* is one step whose response is chosen by the environment.  `issued`      *)
(* records which kinds of call have gone out so far.                       *)
(***************************************************************************)
EXTENDS Naturals, Integers, Sequences, FiniteSets

(***************************************************************************)
(* Bounds of the model and constants of the program.                       *)
(***************************************************************************)
MaxPods == 2
MaxNodes == 2
MaxRetryN == 4
MaxClock == 2

deploymentTimeout == 300
busyboxCount == 1
\* The attempt budgets of the retry call sites.
PodIPsAttempts == 3
ServiceIPAttempts == 3
PodNameAttempts == 3
ClusterIPAttempts == 3
DNSAttempts == 6
PodAttempts == 3
PingAttempts == 3

\* The values returned by errors.New on the exit paths; "nil" is success.
ErrKubectl == "Kubectl must be configured on this machine before running kuberang"
ErrRemove == "Failure removing existing kuberang deployments"
ErrPreconditions == "Pre-conditions failed"
ErrDeploy == "Failed to deploy test workloads"
ErrInfo == "Failed to get required information from cluster"
ErrSteps == "One or more required steps failed"

PodIPValues == {"", "10.0.0.1"}
ServiceIPValues == {"", "10.0.5.5"}
PodNameValues == {"", "kuberang-busybox-abc"}
PodIPLists == UNION {[1..n -> PodIPValues] : n \in 0..MaxPods}

CreateKinds == {"runBusybox", "runNginx", "expose"}
DeployKinds == CreateKinds \cup {"getNodes", "pollDeployments"}
InfoKinds == {"getPodIPs", "getServiceIP", "getBusyboxPod"}
CheckKinds == {"check1", "check2", "check3", "check4", "check5", "check6", "check7"}
TeardownKinds == {"deleteService", "deleteBusybox", "deleteNginx"}

\* Names of the cluster resources a run works on.  A resource is a triple of
\* kind, name and, for a service, the timestamp that ends its name.
bbDeploymentName == "kuberang-busybox"
ngDeploymentName == "kuberang-nginx"
Deployment(name) == <<"deployment", name, 0>>
\* fmt.Sprintf("%s-%d", runPrefix+"nginx", time.Now().UnixNano())
nginxServiceName(now) == <<"service", "kuberang-nginx", now>>

\* What a run that crashed at an earlier time may have left behind.
PreviousRuns == 1..(MaxClock - 1)
Orphans(t) == {Deployment(bbDeploymentName), Deployment(ngDeploymentName),
               nginxServiceName(t)}

PrecheckKinds == {"getNamespace", "precheckService", "precheckBusybox", "precheckNginx"}

NoPoll == [bbOk |-> FALSE, bbObserved |-> 0, ngOk |-> FALSE, ngObserved |-> 0]

VARIABLES
    pc,             \* position in CheckKubernetes
    skipCleanup,    \* the argument of CheckKubernetes
    result,         \* the returned error ("none" while running, "nil" for success)
    success,        \* the local flag `success`
    deferred,       \* whether powerDown is on the defer stack
    issued,         \* kinds of cluster call issued so far
    failedCall,     \* the fatal call that was rejected, "" if none
    found,          \* resources the precondition queries found to exist
    preOk,          \* the flag `ok` of checkPreconditions
    nginxCount,     \* deployTestWorkloads' nginxCount
    elapsed,        \* time.Since(start) in waitForDeployments, in seconds
    lastPoll,       \* the responses of the latest checkDeployments round
    waitResult,     \* what waitForDeployments returned: "none", "ready", "timeout"
    attempts,       \* calls made by the retry in progress
    podIPs, serviceIP, busyboxPodName,
    podIdx,         \* index of the range loops over podIPs
    required,       \* outcome of checks 1, 2, 7: "none", "ok", "fail"
    chk3,           \* outcome of check 3, one per pod IP processed
    tolerated,      \* outcome of checks 4, 6
    chk5,           \* outcome of check 5, one per pod IP processed
    singleCalls,    \* attempts issued so far by the unretried checks 4, 5, 6
    deleteFailed,   \* powerDown deletes that were rejected
    nsFailed,       \* whether precheckNamespace reported a failure
    ngServiceName,  \* the local ngServiceName
    cluster,        \* kuberang resources in the cluster: those a previous run left
                    \* and those this run created and did not delete; other
                    \* clients act on the cluster too, so the responses to
                    \* queries are not derived from it
    rN, rScript, rCalls, rDone, rResult   \* a retry(n, probe) run on its own

mainVars == <<pc, skipCleanup, result, success, deferred, issued, failedCall, found,
              preOk, nginxCount, elapsed, lastPoll, waitResult, attempts, podIPs,
              serviceIP, busyboxPodName, podIdx, required, chk3, tolerated, chk5,
              singleCalls,
              deleteFailed, nsFailed, ngServiceName, cluster>>
retryVars == <<rN, rScript, rCalls, rDone, rResult>>
vars == <<mainVars, retryVars>>

preVars == <<found, preOk, nsFailed>>
clusterVars == <<ngServiceName, cluster>>
deployVars == <<nginxCount, elapsed, lastPoll, waitResult>>
infoVars == <<podIPs, serviceIP, busyboxPodName>>
probeVars == <<podIdx, required, chk3, tolerated, chk5, singleCalls>>

(***************************************************************************)
(* retry(n, probe): the loop goes on while the probe failed and attempts   *)
(* remain; the value returned is the last probe's.                         *)
(***************************************************************************)
\* Variant: a retry that does not stop at the first success.
RetryContinuesPastSuccess(n, calls, r) == calls < n

RetryContinues(n, calls, r) == ~r /\ calls < n

RetryReturns(r) == r

\* Variant: teardown called by hand on the success path only, no defer.
ExitOnSuccessOnly(err) ==
    /\ result' = err
    /\ pc' = IF deferred /\ err = "nil" THEN "powerDownService" ELSE "done"

(***************************************************************************)
(* Leaving CheckKubernetes with `err`: the deferred powerDown, if          *)
(* registered, runs before the function returns to its caller.             *)
(***************************************************************************)
Exit(err) ==
    /\ result' = err
    /\ pc' = IF deferred THEN "powerDownService" ELSE "done"

InitWorkflow ==
    /\ pc = "precheckKubectl"
    /\ skipCleanup \in BOOLEAN
    /\ result = "none"
    /\ success = TRUE
    /\ deferred = FALSE
    /\ issued = {}
    /\ failedCall = ""
    /\ found = {}
    /\ preOk = TRUE
    /\ nginxCount = 0
    /\ elapsed = 0
    /\ lastPoll = NoPoll
    /\ waitResult = "none"
    /\ attempts = 0
    /\ podIPs = <<>>
    /\ serviceIP = ""
    /\ busyboxPodName = ""
    /\ podIdx = 0
    /\ required = [c \in {"check1", "check2", "check7"} |-> "none"]
    /\ chk3 = <<>>
    /\ tolerated = [c \in {"check4", "check6"} |-> "none"]
    /\ chk5 = <<>>
    /\ singleCalls = [c \in {"check4", "check5", "check6"} |-> 0]
    /\ deleteFailed = {}
    /\ nsFailed = FALSE
    /\ ngServiceName = nginxServiceName(MaxClock)
    /\ \E t \in PreviousRuns : cluster \in SUBSET Orphans(t)

Init ==
    /\ InitWorkflow
    /\ rN = 1 /\ rScript = <<>> /\ rCalls = 0 /\ rDone = FALSE /\ rResult = FALSE

\* Variant: the workflow goes from the kubectl check straight to the preconditions.
precheckKubectlSkipsCleanup ==
    /\ pc = "precheckKubectl"
    /\ \E ok \in BOOLEAN :
        /\ issued' = issued \cup {"version"}
        /\ IF ok
           THEN /\ pc' = "precheckNamespace"
                /\ UNCHANGED <<result, failedCall>>
           ELSE /\ failedCall' = "version"
                /\ result' = ErrKubectl
                /\ pc' = "done"
    /\ UNCHANGED <<skipCleanup, success, deferred, preVars, deployVars, attempts,
                   infoVars, probeVars, deleteFailed, retryVars, clusterVars>>

\* Variant: the result of precheckKubectl is not looked at.
precheckKubectlUnchecked ==
    /\ pc = "precheckKubectl"
    /\ \E ok \in BOOLEAN :
        /\ issued' = issued \cup {"version"}
        /\ failedCall' = IF ok THEN failedCall ELSE "version"
        /\ pc' = "removeExisting"
    /\ UNCHANGED <<skipCleanup, result, success, deferred, preVars, deployVars,
                   attempts, infoVars, probeVars, deleteFailed, retryVars, clusterVars>>

(***************************************************************************)
(* Precondition stage.                                                     *)
(***************************************************************************)
precheckKubectl ==
    /\ pc = "precheckKubectl"
    /\ \E ok \in BOOLEAN :
        /\ issued' = issued \cup {"version"}
        /\ IF ok
           THEN /\ pc' = "removeExisting"
                /\ UNCHANGED <<result, failedCall>>
           ELSE /\ failedCall' = "version"
                /\ result' = ErrKubectl
                /\ pc' = "done"
    /\ UNCHANGED <<skipCleanup, success, deferred, preVars, deployVars, attempts,
                   infoVars, probeVars, deleteFailed, retryVars, clusterVars>>

\* Lines 379-383: what the one delete request of removeExisting names.
removeExistingTargets ==
    {Deployment(bbDeploymentName), Deployment(ngDeploymentName), ngServiceName}

removeExisting ==
    /\ pc = "removeExisting"
    /\ \E ok \in BOOLEAN :
        /\ issued' = issued \cup {"removeExisting"}
        /\ IF ok
           THEN /\ pc' = "precheckNamespace"
                /\ cluster' = cluster \ removeExistingTargets
                /\ UNCHANGED <<result, failedCall>>
           ELSE /\ failedCall' = "removeExisting"
                /\ result' = ErrRemove
                /\ UNCHANGED cluster
                /\ pc' = "done"
    /\ UNCHANGED <<skipCleanup, success, deferred, preVars, deployVars, attempts,
                   infoVars, probeVars, deleteFailed, retryVars, ngServiceName>>

\* configured: config.Namespace != ""; koSuccess, active: the query's response.
precheckNamespaceRet(configured, koSuccess, active) ==
    ~configured \/ (koSuccess /\ active)

precheckNamespace ==
    /\ pc = "precheckNamespace"
    /\ \E configured, koSuccess, active \in BOOLEAN :
        /\ issued' = IF configured THEN issued \cup {"getNamespace"} ELSE issued
        /\ preOk' = precheckNamespaceRet(configured, koSuccess, active)
        /\ nsFailed' = ~precheckNamespaceRet(configured, koSuccess, active)
    /\ pc' = "precheckServices"
    /\ UNCHANGED <<skipCleanup, result, success, deferred, failedCall, found,
                   deployVars, attempts, infoVars, probeVars, deleteFailed, retryVars, clusterVars>>

\* Variant: checkPreconditions returns at the first failed precondition.
precheckServicesShortCircuit ==
    /\ pc = "precheckServices"
    /\ IF preOk
       THEN /\ \E exists \in BOOLEAN :
                /\ found' = IF exists THEN found \cup {"service"} ELSE found
                /\ preOk' = ~exists
            /\ issued' = issued \cup {"precheckService"}
            /\ pc' = "precheckDeployments"
       ELSE /\ pc' = "checkPreconditions"
            /\ UNCHANGED <<found, preOk, issued>>
    /\ UNCHANGED <<nsFailed, skipCleanup, result, success, deferred, failedCall,
                   deployVars, attempts, infoVars, probeVars, deleteFailed, retryVars,
                   clusterVars>>

precheckServices ==
    /\ pc = "precheckServices"
    /\ \E exists \in BOOLEAN :
        /\ found' = IF exists THEN found \cup {"service"} ELSE found
        /\ preOk' = (preOk /\ ~exists)
    /\ issued' = issued \cup {"precheckService"}
    /\ pc' = "precheckDeployments"
    /\ UNCHANGED <<nsFailed, skipCleanup, result, success, deferred, failedCall, deployVars,
                   attempts, infoVars, probeVars, deleteFailed, retryVars, clusterVars>>

\* Variant: `ret` overwritten by the second query.
precheckDeploymentsRetLast(bbExists, ngExists) == ~ngExists

precheckDeploymentsRet(bbExists, ngExists) == ~bbExists /\ ~ngExists

precheckDeployments ==
    /\ pc = "precheckDeployments"
    /\ \E bbExists, ngExists \in BOOLEAN :
        /\ found' = found \cup (IF bbExists THEN {"busybox"} ELSE {})
                          \cup (IF ngExists THEN {"nginx"} ELSE {})
        /\ preOk' = (preOk /\ precheckDeploymentsRet(bbExists, ngExists))
    /\ issued' = issued \cup {"precheckBusybox", "precheckNginx"}
    /\ pc' = "checkPreconditions"
    /\ UNCHANGED <<nsFailed, skipCleanup, result, success, deferred, failedCall, deployVars,
                   attempts, infoVars, probeVars, deleteFailed, retryVars, clusterVars>>

\* Variant: powerDown deferred whatever skipCleanup says.
checkPreconditionsAlwaysDefers ==
    /\ pc = "checkPreconditions"
    /\ IF preOk
       THEN /\ deferred' = TRUE
            /\ pc' = "runBusybox"
            /\ UNCHANGED result
       ELSE /\ result' = ErrPreconditions
            /\ pc' = "done"
            /\ UNCHANGED deferred
    /\ UNCHANGED <<skipCleanup, success, issued, failedCall, preVars, deployVars,
                   attempts, infoVars, probeVars, deleteFailed, retryVars, clusterVars>>

\* Variant: the workloads are deployed whatever checkPreconditions returned.
checkPreconditionsUnchecked ==
    /\ pc = "checkPreconditions"
    /\ deferred' = ~skipCleanup
    /\ pc' = "runBusybox"
    /\ UNCHANGED <<skipCleanup, result, success, issued, failedCall, preVars, deployVars,
                   attempts, infoVars, probeVars, deleteFailed, retryVars, clusterVars>>

\* Lines 48-54: the verdict of checkPreconditions, then the defer.
checkPreconditions ==
    /\ pc = "checkPreconditions"
    /\ IF preOk
       THEN /\ deferred' = ~skipCleanup
            /\ pc' = "runBusybox"
            /\ UNCHANGED result
       ELSE /\ result' = ErrPreconditions
            /\ pc' = "done"
            /\ UNCHANGED deferred
    /\ UNCHANGED <<skipCleanup, success, issued, failedCall, preVars, deployVars,
                   attempts, infoVars, probeVars, deleteFailed, retryVars, clusterVars>>

(***************************************************************************)
(* deployTestWorkloads.                                                    *)
(***************************************************************************)
runBusybox ==
    /\ pc = "runBusybox"
    /\ issued' = issued \cup {"runBusybox"}
    /\ \E ok \in BOOLEAN :
        IF ok
        THEN /\ pc' = "getNodes"
             /\ cluster' = cluster \cup {Deployment(bbDeploymentName)}
             /\ UNCHANGED <<result, failedCall>>
        ELSE /\ failedCall' = "runBusybox"
             /\ Exit(ErrDeploy)
             /\ UNCHANGED cluster
    /\ UNCHANGED <<skipCleanup, success, deferred, preVars, deployVars, attempts,
                   infoVars, probeVars, deleteFailed, retryVars, ngServiceName>>

getNodes ==
    /\ pc = "getNodes"
    /\ issued' = issued \cup {"getNodes"}
    /\ \E n \in 0..MaxNodes : nginxCount' = n
    /\ pc' = "runNginx"
    /\ UNCHANGED <<skipCleanup, result, success, deferred, failedCall, preVars,
                   elapsed, lastPoll, waitResult, attempts, infoVars, probeVars,
                   deleteFailed, retryVars, clusterVars>>

\* Variant: a rejected nginx start request does not end deployTestWorkloads.
runNginxUnchecked ==
    /\ pc = "runNginx"
    /\ issued' = issued \cup {"runNginx"}
    /\ \E ok \in BOOLEAN :
        /\ failedCall' = IF ok THEN failedCall ELSE "runNginx"
        /\ cluster' = IF ok THEN cluster \cup {Deployment(ngDeploymentName)} ELSE cluster
    /\ pc' = "expose"
    /\ UNCHANGED <<skipCleanup, result, success, deferred, preVars, deployVars,
                   attempts, infoVars, probeVars, deleteFailed, retryVars, ngServiceName>>

runNginx ==
    /\ pc = "runNginx"
    /\ issued' = issued \cup {"runNginx"}
    /\ \E ok \in BOOLEAN :
        IF ok
        THEN /\ pc' = "expose"
             /\ cluster' = cluster \cup {Deployment(ngDeploymentName)}
             /\ UNCHANGED <<result, failedCall>>
        ELSE /\ failedCall' = "runNginx"
             /\ Exit(ErrDeploy)
             /\ UNCHANGED cluster
    /\ UNCHANGED <<skipCleanup, success, deferred, preVars, deployVars, attempts,
                   infoVars, probeVars, deleteFailed, retryVars, ngServiceName>>

expose ==
    /\ pc = "expose"
    /\ issued' = issued \cup {"expose"}
    /\ \E ok \in BOOLEAN :
        IF ok
        THEN /\ pc' = "waitForDeployments"
             /\ cluster' = cluster \cup {ngServiceName}
             /\ UNCHANGED <<result, failedCall>>
        ELSE /\ failedCall' = "expose"
             /\ Exit(ErrDeploy)
             /\ UNCHANGED cluster
    /\ UNCHANGED <<skipCleanup, success, deferred, preVars, deployVars, attempts,
                   infoVars, probeVars, deleteFailed, retryVars, ngServiceName>>

(***************************************************************************)
(* waitForDeployments.  The clock is counted in seconds and advances with  *)
(* time.Sleep(1 * time.Second); a response is either a failed query or an  *)
(* observed replica count.                                                 *)
(***************************************************************************)
\* Variant: a deployment seen ready in the round before still counts as ready.
checkDeploymentsAcrossRounds(poll, bbCount, ngCount) ==
    /\ \/ poll.bbOk /\ poll.bbObserved = bbCount
       \/ lastPoll.bbOk /\ lastPoll.bbObserved = bbCount
    /\ \/ poll.ngOk /\ poll.ngObserved = ngCount
       \/ lastPoll.ngOk /\ lastPoll.ngObserved = ngCount

checkDeployments(poll, bbCount, ngCount) ==
    /\ poll.bbOk /\ poll.bbObserved = bbCount
    /\ poll.ngOk /\ poll.ngObserved = ngCount

PollResponses ==
    {p \in [bbOk : BOOLEAN, bbObserved : 0..(busyboxCount + 1),
            ngOk : BOOLEAN, ngObserved : 0..MaxNodes] :
        /\ (~p.bbOk => p.bbObserved = 0)
        /\ (~p.ngOk => p.ngObserved = 0)}

\* Variant: the loop condition off by one.
waitTimeLeftInclusive == elapsed <= deploymentTimeout

waitTimeLeft == elapsed < deploymentTimeout

\* Variant: a round that is not ready polls again without the Sleep, so the
\* time spent waiting never grows.
waitPollWithoutSleep ==
    /\ pc = "waitForDeployments"
    /\ waitTimeLeft
    /\ issued' = issued \cup {"pollDeployments"}
    /\ \E poll \in PollResponses :
        /\ lastPoll' = poll
        /\ IF checkDeployments(poll, busyboxCount, nginxCount)
           THEN /\ waitResult' = "ready"
                /\ pc' = "deployReturn"
           ELSE UNCHANGED <<pc, waitResult>>
    /\ UNCHANGED <<skipCleanup, result, success, deferred, failedCall, preVars, elapsed,
                   nginxCount, attempts, infoVars, probeVars, deleteFailed, retryVars, clusterVars>>

waitPoll ==
    /\ pc = "waitForDeployments"
    /\ waitTimeLeft
    /\ issued' = issued \cup {"pollDeployments"}
    /\ \E poll \in PollResponses :
        /\ lastPoll' = poll
        /\ IF checkDeployments(poll, busyboxCount, nginxCount)
           THEN /\ waitResult' = "ready"
                /\ pc' = "deployReturn"
                /\ UNCHANGED elapsed
           ELSE /\ elapsed' = elapsed + 1
                /\ UNCHANGED <<pc, waitResult>>
    /\ UNCHANGED <<skipCleanup, result, success, deferred, failedCall, preVars,
                   nginxCount, attempts, infoVars, probeVars, deleteFailed, retryVars, clusterVars>>

waitTimeout ==
    /\ pc = "waitForDeployments"
    /\ ~waitTimeLeft
    /\ waitResult' = "timeout"
    /\ pc' = "deployReturn"
    /\ UNCHANGED <<skipCleanup, result, success, deferred, issued, failedCall,
                   preVars, nginxCount, elapsed, lastPoll, attempts, infoVars,
                   probeVars, deleteFailed, retryVars, clusterVars>>

\* Variant: the poller's verdict is reported but not returned.
deployTestWorkloadsIgnoresPoll == TRUE

\* Lines 251 and 57-59: deployTestWorkloads returns what the poller returned.
deployTestWorkloadsOk == waitResult = "ready"

deployReturn ==
    /\ pc = "deployReturn"
    /\ IF deployTestWorkloadsOk
       THEN /\ pc' = "getPodIPs"
            /\ UNCHANGED result
       ELSE Exit(ErrDeploy)
    /\ nginxCount' = 0
    /\ elapsed' = 0
    /\ lastPoll' = NoPoll
    /\ UNCHANGED <<skipCleanup, success, deferred, issued, failedCall, preVars,
                   waitResult, attempts, infoVars, probeVars, deleteFailed, retryVars, clusterVars>>

(***************************************************************************)
(* Information gathering: three retries, then the gate.                    *)
(***************************************************************************)
\* Variant: the probe without its check for at least one pod IP.
podIPsProbeAnyLength(koSuccess, ips) ==
    /\ koSuccess
    /\ \A i \in 1..Len(ips) : ips[i] # ""

podIPsProbe(koSuccess, ips) ==
    /\ koSuccess
    /\ Len(ips) # 0
    /\ \A i \in 1..Len(ips) : ips[i] # ""

getPodIPs ==
    /\ pc = "getPodIPs"
    /\ issued' = issued \cup {"getPodIPs"}
    /\ \E koSuccess \in BOOLEAN, ips \in PodIPLists :
        LET r == podIPsProbe(koSuccess, ips)
            calls == attempts + 1
        IN  /\ podIPs' = IF koSuccess THEN ips ELSE podIPs
            /\ IF RetryContinues(PodIPsAttempts, calls, r)
               THEN /\ attempts' = calls
                    /\ UNCHANGED <<pc, success>>
               ELSE /\ attempts' = 0
                    /\ success' = IF RetryReturns(r) THEN success ELSE FALSE
                    /\ pc' = "getServiceIP"
    /\ UNCHANGED <<skipCleanup, result, deferred, failedCall, preVars, deployVars,
                   serviceIP, busyboxPodName, probeVars, deleteFailed, retryVars, clusterVars>>

getServiceIP ==
    /\ pc = "getServiceIP"
    /\ issued' = issued \cup {"getServiceIP"}
    /\ \E koSuccess \in BOOLEAN, ip \in ServiceIPValues :
        LET r == koSuccess /\ ip # ""
            calls == attempts + 1
        IN  /\ serviceIP' = IF koSuccess THEN ip ELSE serviceIP
            /\ IF RetryContinues(ServiceIPAttempts, calls, r)
               THEN /\ attempts' = calls
                    /\ UNCHANGED <<pc, success>>
               ELSE /\ attempts' = 0
                    /\ success' = IF RetryReturns(r) THEN success ELSE FALSE
                    /\ pc' = "getBusyboxPod"
    /\ UNCHANGED <<skipCleanup, result, deferred, failedCall, preVars, deployVars,
                   podIPs, busyboxPodName, probeVars, deleteFailed, retryVars, clusterVars>>

getBusyboxPod ==
    /\ pc = "getBusyboxPod"
    /\ issued' = issued \cup {"getBusyboxPod"}
    /\ \E koSuccess \in BOOLEAN, name \in PodNameValues :
        LET r == koSuccess /\ name # ""
            calls == attempts + 1
        IN  /\ busyboxPodName' = IF koSuccess THEN name ELSE busyboxPodName
            /\ IF RetryContinues(PodNameAttempts, calls, r)
               THEN /\ attempts' = calls
                    /\ UNCHANGED <<pc, success>>
               ELSE /\ attempts' = 0
                    /\ success' = IF RetryReturns(r) THEN success ELSE FALSE
                    /\ pc' = "gate"
    /\ UNCHANGED <<skipCleanup, result, deferred, failedCall, preVars, deployVars,
                   podIPs, serviceIP, probeVars, deleteFailed, retryVars, clusterVars>>

\* Variant: the gate looks at the last retry only.
gatePassesLastOnly == busyboxPodName # ""

\* Lines 128-130.
gatePasses == success

gate ==
    /\ pc = "gate"
    /\ IF gatePasses
       THEN /\ pc' = "check1"
            /\ UNCHANGED result
       ELSE Exit(ErrInfo)
    /\ UNCHANGED <<skipCleanup, success, deferred, issued, failedCall, preVars,
                   deployVars, attempts, infoVars, probeVars, deleteFailed, retryVars, clusterVars>>

(***************************************************************************)
(* The probe sequence, checks 1 to 7.                                      *)
(***************************************************************************)
Outcome(ok) == IF ok THEN "ok" ELSE "fail"

\* Where a `for _, podIP := range podIPs` loop goes: its body or past it.
RangeStart(body, after) == IF Len(podIPs) = 0 THEN after ELSE body

check1 ==
    /\ pc = "check1"
    /\ issued' = issued \cup {"check1"}
    /\ \E koSuccess \in BOOLEAN :
        LET calls == attempts + 1
        IN  IF RetryContinues(ClusterIPAttempts, calls, koSuccess)
            THEN /\ attempts' = calls
                 /\ UNCHANGED <<pc, success, required>>
            ELSE /\ attempts' = 0
                 /\ required' = [required EXCEPT !["check1"] = Outcome(RetryReturns(koSuccess))]
                 /\ success' = IF RetryReturns(koSuccess) THEN success ELSE FALSE
                 /\ pc' = "check2"
    /\ UNCHANGED <<skipCleanup, result, deferred, failedCall, preVars, deployVars,
                   infoVars, podIdx, chk3, tolerated, chk5, deleteFailed, singleCalls, retryVars, clusterVars>>

check2 ==
    /\ pc = "check2"
    /\ issued' = issued \cup {"check2"}
    /\ \E koSuccess \in BOOLEAN :
        LET calls == attempts + 1
        IN  IF RetryContinues(DNSAttempts, calls, koSuccess)
            THEN /\ attempts' = calls
                 /\ UNCHANGED <<pc, success, required, podIdx>>
            ELSE /\ attempts' = 0
                 /\ required' = [required EXCEPT !["check2"] = Outcome(RetryReturns(koSuccess))]
                 /\ success' = IF RetryReturns(koSuccess) THEN success ELSE FALSE
                 /\ pc' = RangeStart("check3", "check4")
                 /\ podIdx' = 1
    /\ UNCHANGED <<skipCleanup, result, deferred, failedCall, preVars, deployVars,
                   infoVars, chk3, tolerated, chk5, deleteFailed, singleCalls, retryVars, clusterVars>>

\* Variant: the loop over podIPs breaks at the first pod that cannot be reached.
check3NextBreak(ok) == IF ok /\ podIdx < Len(podIPs) THEN "check3" ELSE "check4"

\* Check 3: where the range loop goes once the retry for podIPs[podIdx] ended
\* with `ok`; the body has no break, so `ok` does not steer it.
check3Next(ok) == IF podIdx < Len(podIPs) THEN "check3" ELSE "check4"

check3 ==
    /\ pc = "check3"
    /\ issued' = issued \cup {"check3"}
    /\ \E koSuccess \in BOOLEAN :
        LET calls == attempts + 1
        IN  IF RetryContinues(PodAttempts, calls, koSuccess)
            THEN /\ attempts' = calls
                 /\ UNCHANGED <<pc, success, chk3, podIdx>>
            ELSE /\ attempts' = 0
                 /\ chk3' = Append(chk3, RetryReturns(koSuccess))
                 /\ success' = IF RetryReturns(koSuccess) THEN success ELSE FALSE
                 /\ pc' = check3Next(RetryReturns(koSuccess))
                 /\ podIdx' = IF podIdx < Len(podIPs) THEN podIdx + 1 ELSE 0
    /\ UNCHANGED <<skipCleanup, result, deferred, failedCall, preVars, deployVars,
                   infoVars, required, tolerated, chk5, deleteFailed, singleCalls, retryVars, clusterVars>>

\* Variant: check 4 treated as a required check.
check4SuccessStrict(ok) == success /\ ok

\* Check 4 only prints: an ignored error never touches `success`.
check4Success(ok) == success

\* Variant: check 4 wrapped in a retry like the checks around it.
check4Retried ==
    /\ pc = "check4"
    /\ issued' = issued \cup {"check4"}
    /\ \E koSuccess \in BOOLEAN :
        LET ok == busyboxPodName = "" \/ koSuccess
        IN  /\ tolerated' = [tolerated EXCEPT !["check4"] = Outcome(ok)]
            /\ success' = check4Success(ok)
            /\ IF RetryContinues(PodAttempts, attempts + 1, ok)
               THEN /\ attempts' = attempts + 1
                    /\ UNCHANGED <<pc, podIdx>>
               ELSE /\ attempts' = 0
                    /\ pc' = RangeStart("check5", "check6")
                    /\ podIdx' = IF Len(podIPs) = 0 THEN 0 ELSE 1
    /\ singleCalls' = [singleCalls EXCEPT !["check4"] = @ + 1]
    /\ UNCHANGED <<skipCleanup, result, deferred, failedCall, preVars, deployVars,
                   infoVars, required, chk3, chk5, deleteFailed, retryVars, clusterVars>>

check4 ==
    /\ pc = "check4"
    /\ issued' = issued \cup {"check4"}
    /\ \E koSuccess \in BOOLEAN :
        LET ok == busyboxPodName = "" \/ koSuccess
        IN  /\ tolerated' = [tolerated EXCEPT !["check4"] = Outcome(ok)]
            /\ success' = check4Success(ok)
    /\ singleCalls' = [singleCalls EXCEPT !["check4"] = @ + 1]
    /\ pc' = RangeStart("check5", "check6")
    /\ podIdx' = IF Len(podIPs) = 0 THEN 0 ELSE 1
    /\ UNCHANGED <<skipCleanup, result, deferred, failedCall, preVars, deployVars,
                   attempts, infoVars, required, chk3, chk5, deleteFailed, retryVars, clusterVars>>

check5 ==
    /\ pc = "check5"
    /\ issued' = issued \cup {"check5"}
    /\ \E errNil \in BOOLEAN : chk5' = Append(chk5, errNil)
    /\ singleCalls' = [singleCalls EXCEPT !["check5"] = @ + 1]
    /\ pc' = IF podIdx < Len(podIPs) THEN "check5" ELSE "check6"
    /\ podIdx' = IF podIdx < Len(podIPs) THEN podIdx + 1 ELSE 0
    /\ UNCHANGED <<skipCleanup, result, success, deferred, failedCall, preVars,
                   deployVars, attempts, infoVars, required, chk3, tolerated,
                   deleteFailed, retryVars, clusterVars>>

check6 ==
    /\ pc = "check6"
    /\ issued' = issued \cup {"check6"}
    /\ \E errNil \in BOOLEAN :
        tolerated' = [tolerated EXCEPT !["check6"] = Outcome(errNil)]
    /\ singleCalls' = [singleCalls EXCEPT !["check6"] = @ + 1]
    /\ pc' = "check7"
    /\ UNCHANGED <<skipCleanup, result, success, deferred, failedCall, preVars,
                   deployVars, attempts, infoVars, podIdx, required, chk3, chk5,
                   deleteFailed, retryVars, clusterVars>>

check7 ==
    /\ pc = "check7"
    /\ issued' = issued \cup {"check7"}
    /\ \E koSuccess \in BOOLEAN :
        LET calls == attempts + 1
        IN  IF RetryContinues(PingAttempts, calls, koSuccess)
            THEN /\ attempts' = calls
                 /\ UNCHANGED <<pc, success, required>>
            ELSE /\ attempts' = 0
                 /\ required' = [required EXCEPT !["check7"] = Outcome(RetryReturns(koSuccess))]
                 /\ success' = IF RetryReturns(koSuccess) THEN success ELSE FALSE
                 /\ pc' = "verdict"
    /\ UNCHANGED <<skipCleanup, result, deferred, failedCall, preVars, deployVars,
                   infoVars, podIdx, chk3, tolerated, chk5, deleteFailed, singleCalls, retryVars, clusterVars>>

\* Lines 215-218.
verdict ==
    /\ pc = "verdict"
    /\ IF success THEN Exit("nil") ELSE Exit(ErrSteps)
    /\ UNCHANGED <<skipCleanup, success, deferred, issued, failedCall, preVars,
                   deployVars, attempts, infoVars, probeVars, deleteFailed, retryVars, clusterVars>>

(***************************************************************************)
(* powerDown: three deletes, each reported, none stopping the next.        *)
(***************************************************************************)
\* Variant: powerDown gives up when the service cannot be deleted.
powerDownServiceOrReturn ==
    /\ pc = "powerDownService"
    /\ issued' = issued \cup {"deleteService"}
    /\ \E ok \in BOOLEAN :
        /\ deleteFailed' = IF ok THEN deleteFailed ELSE deleteFailed \cup {"deleteService"}
        /\ cluster' = IF ok THEN cluster \ {ngServiceName} ELSE cluster
        /\ pc' = IF ok THEN "powerDownBusybox" ELSE "done"
    /\ UNCHANGED <<skipCleanup, result, success, deferred, failedCall, preVars,
                   deployVars, attempts, infoVars, probeVars, retryVars, ngServiceName>>

powerDownService ==
    /\ pc = "powerDownService"
    /\ issued' = issued \cup {"deleteService"}
    /\ \E ok \in BOOLEAN :
        /\ deleteFailed' = IF ok THEN deleteFailed ELSE deleteFailed \cup {"deleteService"}
        /\ cluster' = IF ok THEN cluster \ {ngServiceName} ELSE cluster
    /\ pc' = "powerDownBusybox"
    /\ UNCHANGED <<skipCleanup, result, success, deferred, failedCall, preVars,
                   deployVars, attempts, infoVars, probeVars, retryVars, ngServiceName>>

powerDownBusybox ==
    /\ pc = "powerDownBusybox"
    /\ issued' = issued \cup {"deleteBusybox"}
    /\ \E ok \in BOOLEAN :
        /\ deleteFailed' = IF ok THEN deleteFailed ELSE deleteFailed \cup {"deleteBusybox"}
        /\ cluster' = IF ok THEN cluster \ {Deployment(bbDeploymentName)} ELSE cluster
    /\ pc' = "powerDownNginx"
    /\ UNCHANGED <<skipCleanup, result, success, deferred, failedCall, preVars,
                   deployVars, attempts, infoVars, probeVars, retryVars, ngServiceName>>

powerDownNginx ==
    /\ pc = "powerDownNginx"
    /\ issued' = issued \cup {"deleteNginx"}
    /\ \E ok \in BOOLEAN :
        /\ deleteFailed' = IF ok THEN deleteFailed ELSE deleteFailed \cup {"deleteNginx"}
        /\ cluster' = IF ok THEN cluster \ {Deployment(ngDeploymentName)} ELSE cluster
    /\ pc' = "done"
    /\ UNCHANGED <<skipCleanup, result, success, deferred, failedCall, preVars,
                   deployVars, attempts, infoVars, probeVars, retryVars, ngServiceName>>

Next ==
    \/ precheckKubectl
    \/ removeExisting
    \/ precheckNamespace
    \/ precheckServices
    \/ precheckDeployments
    \/ checkPreconditions
    \/ runBusybox
    \/ getNodes
    \/ runNginx
    \/ expose
    \/ waitPoll
    \/ waitTimeout
    \/ deployReturn
    \/ getPodIPs
    \/ getServiceIP
    \/ getBusyboxPod
    \/ gate
    \/ check1
    \/ check2
    \/ check3
    \/ check4
    \/ check5
    \/ check6
    \/ check7
    \/ verdict
    \/ powerDownService
    \/ powerDownBusybox
    \/ powerDownNginx

Spec == Init /\ [][Next]_vars

\* Every call to the cluster and every HTTP attempt returns and Sleep ends:
\* a run that can take a step eventually takes one.
SpecFair == Spec /\ WF_vars(Next)

(***************************************************************************)
(* retry(n, probe) on its own: the probe answers from a script fixed in    *)
(* advance (rScript[i] is what call i returns; calls past the script       *)
(* fail), so what retry returns can be compared with what the probe would  *)
(* have answered.                                                          *)
(***************************************************************************)
RetryScripts == [1..MaxRetryN -> BOOLEAN]

ProbeAnswer(i) == IF i \in DOMAIN rScript THEN rScript[i] ELSE FALSE

\* The workflow has not started; only the retry runs.
InitRetry ==
    /\ InitWorkflow
    /\ skipCleanup = FALSE
    /\ cluster = {}
    /\ rN \in 1..MaxRetryN
    /\ rScript \in RetryScripts
    /\ rCalls = 0
    /\ rDone = FALSE
    /\ rResult = FALSE

retryCall ==
    /\ ~rDone
    /\ rCalls <= MaxRetryN + 1
    /\ LET calls == rCalls + 1
           r == ProbeAnswer(calls)
       IN  /\ rCalls' = calls
           /\ IF RetryContinues(rN, calls, r)
              THEN UNCHANGED <<rDone, rResult>>
              ELSE /\ rDone' = TRUE
                   /\ rResult' = RetryReturns(r)
    /\ UNCHANGED <<mainVars, rN, rScript>>

NextRetry == retryCall

SpecRetry == InitRetry /\ [][NextRetry]_vars

(***************************************************************************)
(* Properties.                                                             *)
(***************************************************************************)
Returned == pc = "done"

\* The run got past the precondition stage: the version query and the
\* remove-existing request succeeded and checkPreconditions returned true.
PastPreconditions ==
    /\ {"version", "removeExisting", "precheckNginx"} \subseteq issued
    /\ failedCall \notin {"version", "removeExisting"}
    /\ preOk

EnteredProbes == "check1" \in issued

RequiredAllOk ==
    /\ required["check1"] = "ok"
    /\ required["check2"] = "ok"
    /\ Len(chk3) = Len(podIPs)
    /\ \A i \in 1..Len(chk3) : chk3[i]
    /\ required["check7"] = "ok"

SomeRequiredFailed ==
    \/ \E c \in {"check1", "check2", "check7"} : required[c] = "fail"
    \/ \E i \in 1..Len(chk3) : ~chk3[i]

\* C1: a run with skipCleanup = false that got past the precondition stage has
\* issued the delete of the service, of the busybox deployment and of the nginx
\* deployment by the time it returns, whatever the exit path.
Thm_C1 ==
    (Returned /\ ~skipCleanup /\ PastPreconditions) => TeardownKinds \subseteq issued

Wit_C1 ==
    /\ Returned /\ ~skipCleanup /\ PastPreconditions
    /\ result = ErrSteps
    /\ TeardownKinds \subseteq issued

\* C2: a run that entered the probe sequence returns nil exactly when checks 1,
\* 2, 3 (every pod IP) and 7 succeeded; checks 4, 5 and 6 have no say.
Thm_C2 ==
    (Returned /\ EnteredProbes) => ((result = "nil") <=> RequiredAllOk)

Wit_C2 ==
    /\ Returned /\ EnteredProbes
    /\ result = "nil"
    /\ tolerated["check4"] = "fail"
    /\ tolerated["check6"] = "fail"
    /\ Len(chk5) = 2 /\ ~chk5[1] /\ ~chk5[2]

\* C3: once the probe sequence is entered it runs to its end: when it is left,
\* checks 1 to 7 have all been issued, checks 3 and 5 for every pod IP, and a
\* failed required check makes the verdict a failure.
Thm_C3 ==
    (EnteredProbes /\ result # "none") =>
        /\ CheckKinds \subseteq issued
        /\ Len(chk3) = Len(podIPs)
        /\ Len(chk5) = Len(podIPs)
        /\ \A c \in {"check1", "check2", "check7"} : required[c] # "none"
        /\ \A c \in {"check4", "check6"} : tolerated[c] # "none"
        /\ (SomeRequiredFailed => result = ErrSteps)

Wit_C3 ==
    /\ Returned
    /\ required["check1"] = "fail"
    /\ chk3 = <<FALSE, TRUE>>
    /\ required["check7"] = "ok"
    /\ result = ErrSteps

\* C4 as stated: after a readiness timeout the run still goes on to the
\* information-gathering retries.
Orig_C4 ==
    (Returned /\ waitResult = "timeout") => InfoKinds \subseteq issued

\* C4, amended: a readiness timeout ends the run: no information-gathering
\* query and no probe is issued, the run returns "Failed to deploy test
\* workloads", and with skipCleanup = false the teardown still runs.
Thm_C4 ==
    waitResult = "timeout" =>
        /\ issued \cap (InfoKinds \cup CheckKinds) = {}
        /\ pc \in {"deployReturn", "powerDownService", "powerDownBusybox",
                   "powerDownNginx", "done"}
        /\ (pc # "deployReturn" => result = ErrDeploy)
        /\ ((Returned /\ ~skipCleanup) => TeardownKinds \subseteq issued)

Wit_C4 ==
    /\ Returned /\ ~skipCleanup
    /\ waitResult = "timeout"
    /\ result = ErrDeploy

\* C5: when a precondition query finds the service or one of the two
\* deployments already there, no creation request is ever issued and the run
\* returns "Pre-conditions failed".
Thm_C5 ==
    found # {} =>
        /\ issued \cap CreateKinds = {}
        /\ pc \in {"precheckDeployments", "checkPreconditions", "done"}
        /\ (Returned => result = ErrPreconditions)

Wit_C5 ==
    /\ Returned
    /\ found = {"nginx"}
    /\ result = ErrPreconditions

\* What the three retries were to obtain is not all there.
InfoMissing ==
    \/ podIPs = <<>>
    \/ \E i \in 1..Len(podIPs) : podIPs[i] = ""
    \/ serviceIP = ""
    \/ busyboxPodName = ""

InfoRetriesOver == "getBusyboxPod" \in issued /\ pc # "getBusyboxPod"

\* C6: when the three retries ended without pod IPs (non-empty, none blank), a
\* service IP and a busybox pod name, no check is issued, the run returns
\* "Failed to get required information from cluster" and, with skipCleanup =
\* false, the teardown runs.
Thm_C6 ==
    (InfoRetriesOver /\ InfoMissing) =>
        /\ issued \cap CheckKinds = {}
        /\ pc \in {"gate", "powerDownService", "powerDownBusybox",
                   "powerDownNginx", "done"}
        /\ (pc # "gate" => result = ErrInfo)
        /\ ((Returned /\ ~skipCleanup) => TeardownKinds \subseteq issued)

Wit_C6 ==
    /\ Returned /\ ~skipCleanup
    /\ podIPs = <<"10.0.0.1">>
    /\ serviceIP = ""
    /\ busyboxPodName # ""
    /\ result = ErrInfo
    /\ TeardownKinds \subseteq issued

\* C7: when the version query fails the run has returned with the kubectl
\* error and the version query is the only call it ever issued.
Thm_C7 ==
    failedCall = "version" =>
        /\ Returned
        /\ result = ErrKubectl
        /\ issued = {"version"}

Wit_C7 == Returned /\ failedCall = "version" /\ skipCleanup = FALSE

\* The calls that follow a creation request in deployTestWorkloads and after.
LaterThan(kind) ==
    InfoKinds \cup CheckKinds \cup {"pollDeployments"} \cup
    (CASE kind = "runBusybox" -> {"getNodes", "runNginx", "expose"}
       [] kind = "runNginx" -> {"expose"}
       [] OTHER -> {})

\* C8: when a creation request is rejected the run returns "Failed to deploy
\* test workloads", nothing that follows the request in the workflow is issued
\* (no later creation, no readiness poll, no query, no probe) and, with
\* skipCleanup = false, the three teardown deletes are issued.
Thm_C8 ==
    failedCall \in CreateKinds =>
        /\ result = ErrDeploy
        /\ issued \cap LaterThan(failedCall) = {}
        /\ waitResult = "none"
        /\ ((Returned /\ ~skipCleanup) => TeardownKinds \subseteq issued)

Wit_C8 ==
    /\ Returned /\ ~skipCleanup
    /\ failedCall = "runNginx"
    /\ TeardownKinds \subseteq issued

\* C9: retry(n, probe) calls the probe at most n times, never again after a
\* call that returned true, and returns true exactly when one of the first n
\* answers of the probe is true.
Thm_C9 ==
    /\ rCalls <= rN
    /\ \A i \in 1..(rCalls - 1) : ~ProbeAnswer(i)
    /\ (~rDone => rCalls < rN)
    /\ (rDone => (rResult <=> \E i \in 1..rN : ProbeAnswer(i)))

Wit_C9 ==
    /\ rDone /\ rResult
    /\ rN = 3 /\ rCalls = 2
    /\ ~rScript[1] /\ rScript[2] /\ rScript[3]

\* Both deployments answered and show their desired replica counts.
Ready(poll) ==
    /\ poll.bbOk /\ poll.ngOk
    /\ poll.bbObserved = busyboxCount
    /\ poll.ngObserved = nginxCount

\* C10: a poll that sees the desired counts before the timeout makes the
\* poller return true at once, before the timeout has elapsed; the poller
\* returns false only when no poll saw them and the whole window of
\* deploymentTimeout one-second sleeps has elapsed.
Thm_C10 ==
    /\ (pc = "waitForDeployments" /\ elapsed > 0) => ~Ready(lastPoll)
    /\ (pc = "deployReturn" /\ waitResult = "ready") =>
            (Ready(lastPoll) /\ elapsed < deploymentTimeout)
    /\ (pc = "deployReturn" /\ waitResult = "timeout") =>
            (~Ready(lastPoll) /\ elapsed = deploymentTimeout)

Wit_C10 ==
    /\ pc = "deployReturn"
    /\ waitResult = "timeout"
    /\ elapsed = deploymentTimeout
    /\ lastPoll.bbOk /\ lastPoll.bbObserved = busyboxCount
    /\ lastPoll.ngOk /\ lastPoll.ngObserved # nginxCount

RemoveExistingSucceeded ==
    "removeExisting" \in issued /\ failedCall # "removeExisting"

\* C11: right after the remove-existing request of a run succeeded, nothing a
\* previous crashed run left behind (its service, its busybox deployment, its
\* nginx deployment) is in the cluster any more.
Orig_C11 ==
    (pc = "precheckNamespace" /\ RemoveExistingSucceeded) =>
        \A t \in PreviousRuns : cluster \cap Orphans(t) = {}

\* C12: a powerDown that was started issues all three deletes, whichever of
\* them are rejected.
Thm_C12 ==
    /\ (pc = "powerDownBusybox" => "deleteService" \in issued)
    /\ (pc = "powerDownNginx" => {"deleteService", "deleteBusybox"} \subseteq issued)
    /\ deleteFailed \subseteq issued \cap TeardownKinds
    /\ (Returned /\ issued \cap TeardownKinds # {}) => TeardownKinds \subseteq issued

Wit_C12 ==
    /\ Returned
    /\ deleteFailed = TeardownKinds
    /\ TeardownKinds \subseteq issued

\* What the successful creation requests of this run created.
CreatedByRun ==
    {x \in {Deployment(bbDeploymentName), Deployment(ngDeploymentName), ngServiceName} :
        \/ x = Deployment(bbDeploymentName)
             /\ "runBusybox" \in issued /\ failedCall # "runBusybox"
        \/ x = Deployment(ngDeploymentName)
             /\ "runNginx" \in issued /\ failedCall # "runNginx"
        \/ x = ngServiceName
             /\ "expose" \in issued /\ failedCall # "expose"}

\* C13: with skipCleanup = true powerDown is never deferred, none of its deletes
\* is ever issued, and what the run created stays in the cluster.
Thm_C13 ==
    skipCleanup =>
        /\ ~deferred
        /\ issued \cap TeardownKinds = {}
        /\ deleteFailed = {}
        /\ CreatedByRun \subseteq cluster

Wit_C13 ==
    /\ Returned /\ skipCleanup
    /\ result = ErrSteps
    /\ {Deployment(bbDeploymentName), Deployment(ngDeploymentName), ngServiceName}
            \subseteq cluster

\* C14 as stated: the remove-existing request is issued in every run, ahead of
\* every other call, the version query included.
Orig_C14 ==
    issued # {} => "removeExisting" \in issued

\* C14, amended: the remove-existing request comes right after a successful
\* version query: it is issued in every run whose version query succeeded,
\* only the version query goes out before it, the precondition queries of
\* checkPreconditions go out only after it succeeded, and a run whose version
\* query failed never issues it.
Thm_C14 ==
    /\ (issued \ {"version"} # {} => "removeExisting" \in issued)
    /\ ("removeExisting" \in issued => ("version" \in issued /\ failedCall # "version"))
    /\ ((Returned /\ failedCall # "version") => "removeExisting" \in issued)
    /\ (issued \cap PrecheckKinds # {} => RemoveExistingSucceeded)

Wit_C14 ==
    /\ Returned
    /\ RemoveExistingSucceeded
    /\ PrecheckKinds \subseteq issued
    /\ result = ErrPreconditions

\* The run went through checkPreconditions to its end.
PrechecksOver ==
    /\ RemoveExistingSucceeded
    /\ pc \notin {"precheckKubectl", "removeExisting", "precheckNamespace",
                  "precheckServices", "precheckDeployments"}

\* C15: a run that reaches checkPreconditions issues the service query and
\* both deployment queries whatever the earlier ones answered (the namespace
\* query goes out first, when a namespace is configured), and the stage fails
\* exactly when the namespace check failed or one of the three was found.
Thm_C15 ==
    /\ (nsFailed => "getNamespace" \in issued)
    /\ PrechecksOver =>
        /\ {"precheckService", "precheckBusybox", "precheckNginx"} \subseteq issued
        /\ (preOk <=> (~nsFailed /\ found = {}))
        /\ (pc # "checkPreconditions" =>
                ((result = ErrPreconditions) <=> (nsFailed \/ found # {})))

Wit_C15 ==
    /\ Returned
    /\ nsFailed
    /\ found = {"service", "busybox", "nginx"}
    /\ result = ErrPreconditions

RetriedCheckPcs == {"check1", "check2", "check3", "check7"}
InfoPcs == {"getPodIPs", "getServiceIP", "getBusyboxPod"}

\* C16: `attempts` counts the calls the retry in progress has made, so the
\* call about to go out is number attempts + 1.  Check 1 never goes past 3
\* calls, check 2 past 6, check 3 past 3 for the pod IP at hand, check 7 past
\* 3, and each of them is entered once (once per pod IP for check 3).  Checks
\* 4 and 6 are issued exactly once and check 5 exactly once per pod IP,
\* whatever the required checks answered.
Thm_C16 ==
    /\ (pc = "check1" => (attempts < 3 /\ (attempts = 0 <=> "check1" \notin issued)))
    /\ (pc = "check2" => (attempts < 6 /\ (attempts = 0 <=> "check2" \notin issued)))
    /\ (pc = "check3" => (attempts < 3 /\ podIdx \in 1..Len(podIPs)
                                       /\ Len(chk3) = podIdx - 1))
    /\ (pc = "check7" => (attempts < 3 /\ (attempts = 0 <=> "check7" \notin issued)))
    /\ (pc \notin RetriedCheckPcs \cup InfoPcs => attempts = 0)
    /\ (pc = "check5" => (podIdx \in 1..Len(podIPs) /\ singleCalls["check5"] = podIdx - 1))
    /\ singleCalls["check4"] <= 1
    /\ singleCalls["check6"] <= 1
    /\ singleCalls["check5"] = Len(chk5)
    /\ (EnteredProbes /\ result # "none") =>
        /\ singleCalls["check4"] = 1
        /\ singleCalls["check5"] = Len(podIPs)
        /\ singleCalls["check6"] = 1
        /\ Len(chk3) = Len(podIPs)

Wit_C16 ==
    /\ Returned
    /\ Len(podIPs) = 2
    /\ \A c \in {"check1", "check2", "check7"} : required[c] = "fail"
    /\ chk3 = <<FALSE, FALSE>>
    /\ singleCalls = [c \in {"check4", "check5", "check6"} |->
                    IF c = "check5" THEN 2 ELSE 1]

\* C17: the poller returns true only from a round in which both queries
\* succeeded and showed 1 busybox replica and as many nginx replicas as
\* RunGetNodes counted nodes; after a round in which a query failed or a count
\* differed the poller has not returned and goes on polling.
Thm_C17 ==
    /\ (pc = "deployReturn" /\ waitResult = "ready") =>
        /\ lastPoll.bbOk /\ lastPoll.bbObserved = 1
        /\ lastPoll.ngOk /\ lastPoll.ngObserved = nginxCount
    /\ (pc = "waitForDeployments" /\ "pollDeployments" \in issued) =>
        /\ waitResult = "none"
        /\ \/ ~lastPoll.bbOk \/ lastPoll.bbObserved # 1
           \/ ~lastPoll.ngOk \/ lastPoll.ngObserved # nginxCount

Wit_C17 ==
    /\ pc = "deployReturn"
    /\ waitResult = "ready"
    /\ elapsed = 2
    /\ nginxCount = 2
    /\ lastPoll.ngObserved = 2

CheckPcs == {"check1", "check2", "check3", "check4", "check5", "check6", "check7"}

\* C18: while the probe sequence runs, and ever after, the busybox pod name
\* and the service IP are non-empty and the pod IP list is non-empty without a
\* blank entry; so check 4 never meets an empty pod name, and a run that
\* returns nil has probed at least one pod IP.
Thm_C18 ==
    /\ (pc \in CheckPcs \/ EnteredProbes) => ~InfoMissing
    /\ (tolerated["check4"] # "none" => busyboxPodName # "")
    /\ (result = "nil" => (Len(chk3) >= 1 /\ "check3" \in issued))

Wit_C18 ==
    /\ Returned
    /\ result = "nil"
    /\ podIPs = <<"10.0.0.1">>
    /\ chk3 = <<TRUE>>
    /\ tolerated["check4"] = "ok"

TeardownPcs == {"powerDownService", "powerDownBusybox", "powerDownNginx"}
CreatePcs == {"runBusybox", "runNginx", "expose"}

\* C19: once a teardown delete has been issued, every further step of the run
\* is a teardown delete (no creation, readiness query, information query or
\* probe follows), and a step that issues a creation request is taken only
\* after the precondition stage has passed.
Thm_C19 ==
    [][ /\ (issued \cap TeardownKinds # {}) =>
            /\ pc \in TeardownPcs
            /\ issued' \ issued \subseteq TeardownKinds
            /\ pc' \in TeardownPcs \cup {"done"}
        /\ (pc \in CreatePcs \/ (issued' \ issued) \cap CreateKinds # {}) =>
            PastPreconditions
      ]_vars

Wit_C19 ==
    /\ Returned
    /\ TeardownKinds \subseteq issued
    /\ CreateKinds \subseteq issued
    /\ "pollDeployments" \in issued
    /\ "check7" \in issued

\* C20: when every call returns and the clock advances, every run returns a
\* verdict to its caller, and until then the readiness poll has waited no more
\* than deploymentTimeout.
Thm_C20 ==
    /\ <>(Returned /\ result # "none")
    /\ [](elapsed <= deploymentTimeout)

Wit_C20 ==
    /\ Returned
    /\ result = ErrSteps
    /\ Len(chk5) = 2
    /\ required["check2"] = "fail"
    /\ required["check7"] = "fail"
    /\ TeardownKinds \subseteq issued

=============================================================================
